---- MODULE Spec2Model ----
(***************************************************************************)
(* Model of the hello-world counter program (program-rust/src/lib.rs and   *)
(* program-rust/src/instruction.rs): HelloInstruction::unpack decodes the   *)
(* raw instruction bytes, process_instruction checks the account's owner,   *)
(* deserializes the GreetingAccount, applies the instruction and writes     *)
(* the record back.                                                         *)
(*                                                                          *)
(* A u32 is kept at its full width.  TLC's integers stop at 2^31 - 1, so a  *)
(* 32-bit value is held as two 16-bit limbs [hi, lo] (value = hi * 2^16 +   *)
(* lo, 0 <= lo < 2^16); a u32 has 0 <= hi < 2^16, and a limb pair whose hi  *)
(* is outside that range is an integer outside the u32 range.               *)
(*                                                                          *)
(* Names of the errors are the code's.  The specification's names for them  *)
(* are: IncorrectOwner = IncorrectProgramId, MalformedRecord = BorshIoError,*)
(* ArithmeticFault = the arithmetic-overflow panic.                         *)
(***************************************************************************)
EXTENDS Integers, Sequences, FiniteSets

\* ------------------------------------------------------------------ bounds
\* Number of process_instruction calls in one behaviour.
MaxCalls == 3
\* Longest tail (bytes after the tag) of a raw instruction the host hands in.
MaxRest == 5
\* Longest account buffer the host allocates.
MaxDataLen == 5

\* ------------------------------------------------------------ u32 and bytes
\* One 16-bit limb holds the values 0 .. Limb - 1.
Limb == 256 * 256

U32(h, l) == [hi |-> h, lo |-> l]

U32_MAX == U32(Limb - 1, Limb - 1)

InU32(x) == x.hi >= 0 /\ x.hi < Limb

\* x < y for limb pairs.
Less(x, y) == x.hi < y.hi \/ (x.hi = y.hi /\ x.lo < y.lo)

\* Integer x + 1 and x - 1, before any reduction to 32 bits.
Plus1(x) == IF x.lo = Limb - 1 THEN U32(x.hi + 1, 0) ELSE U32(x.hi, x.lo + 1)

Minus1(x) == IF x.lo = 0 THEN U32(x.hi - 1, Limb - 1) ELSE U32(x.hi, x.lo - 1)

\* Reduction modulo 2^32: what a wrapping u32 operation stores.
Wrap(x) == U32(x.hi % Limb, x.lo)

\* A mutant of from_le_bytes: the bytes read most-significant first.
from_be_bytes(i) == U32(i[1] * 256 + i[2], i[3] * 256 + i[4])

\* u32::from_le_bytes on a 4-byte array.
from_le_bytes(i) == U32(i[3] + 256 * i[4], i[1] + 256 * i[2])

\* u32::to_le_bytes.
to_le_bytes(x) == << x.lo % 256, x.lo \div 256, x.hi % 256, x.hi \div 256 >>

\* [b; n]: n copies of the byte b.
Repeat(b, n) == [k \in 1..n |-> b]

\* --------------------------------------------------------- HelloInstruction
Increment == [type |-> "Increment", val |-> U32(0, 0)]

Decrement == [type |-> "Decrement", val |-> U32(0, 0)]

Set(v) == [type |-> "Set", val |-> v]

\* No instruction: unpack returned Err.
NoInstruction == [type |-> "None", val |-> U32(0, 0)]

UnpackOk(i) == [err |-> "Ok", ins |-> i]

UnpackErr == [err |-> "InvalidInstructionData", ins |-> NoInstruction]

\* A mutant of unpack: a Set payload is only required to hold at least 4
\* bytes, and the first 4 are read.
unpack_prefix(input) ==
    IF Len(input) = 0 THEN UnpackErr
    ELSE LET tag == input[1]
             rest == SubSeq(input, 2, Len(input))
         IN  CASE tag = 0 -> UnpackOk(Increment)
               [] tag = 1 -> UnpackOk(Decrement)
               [] tag = 2 -> IF Len(rest) < 4 THEN UnpackErr
                             ELSE UnpackOk(Set(from_le_bytes(SubSeq(rest, 1, 4))))
               [] OTHER -> UnpackErr

\* HelloInstruction::unpack.
unpack(input) ==
    IF Len(input) = 0 THEN UnpackErr
    ELSE LET tag == input[1]
             rest == SubSeq(input, 2, Len(input))
         IN  CASE tag = 0 -> UnpackOk(Increment)
               [] tag = 1 -> UnpackOk(Decrement)
               [] tag = 2 -> IF Len(rest) # 4 THEN UnpackErr
                             ELSE UnpackOk(Set(from_le_bytes(SubSeq(rest, 1, 4))))
               [] OTHER -> UnpackErr

\* ---------------------------------------------------------- GreetingAccount
DeserOk(c) == [err |-> "Ok", counter |-> c]

DeserErr == [err |-> "BorshIoError", counter |-> U32(0, 0)]

\* A mutant of try_from_slice: no length check, missing bytes read as zero.
try_from_slice_lenient(v) ==
    LET padded == [k \in 1..4 |-> IF k <= Len(v) THEN v[k] ELSE 0]
    IN  DeserOk(from_le_bytes(padded))

\* A mutant of try_from_slice: bytes left over after the u32 are accepted.
try_from_slice_prefix(v) ==
    IF Len(v) < 4 THEN DeserErr
    ELSE DeserOk(from_le_bytes(SubSeq(v, 1, 4)))

\* GreetingAccount::try_from_slice (borsh): the u32 field needs 4 bytes
\* ("Unexpected length of input") and no byte may be left over ("Not all
\* bytes read"); either io::Error becomes ProgramError::BorshIoError.
try_from_slice(v) ==
    IF Len(v) < 4 THEN DeserErr
    ELSE IF Len(v) > 4 THEN DeserErr
    ELSE DeserOk(from_le_bytes(SubSeq(v, 1, 4)))

\* GreetingAccount::serialize into the slice `buf` (io::Write for &mut [u8]):
\* as many of the 4 bytes as fit are copied to the front of the slice, and
\* the write fails (WriteZero, a BorshIoError) when not all 4 fit.
serialize(counter, buf) ==
    LET bytes == to_le_bytes(counter)
        amt == IF Len(buf) < 4 THEN Len(buf) ELSE 4
    IN  [err |-> IF amt = 4 THEN "Ok" ELSE "BorshIoError",
         buf |-> [k \in 1..Len(buf) |-> IF k <= amt THEN bytes[k] ELSE buf[k]]]

\* x + y for limb pairs.
Sum(x, y) ==
    U32(x.hi + y.hi + ((x.lo + y.lo) \div Limb), (x.lo + y.lo) % Limb)

\* A mutant of the match arms: Set adds val to the counter (`+=` for `=`).
apply_set_adds(ins, counter, checks) ==
    CASE ins.type = "Increment" ->
            IF InU32(Plus1(counter)) THEN [panic |-> FALSE, counter |-> Plus1(counter)]
            ELSE [panic |-> checks, counter |-> Wrap(Plus1(counter))]
      [] ins.type = "Decrement" ->
            IF InU32(Minus1(counter)) THEN [panic |-> FALSE, counter |-> Minus1(counter)]
            ELSE [panic |-> checks, counter |-> Wrap(Minus1(counter))]
      [] OTHER -> [panic |-> FALSE, counter |-> Wrap(Sum(counter, ins.val))]

\* The match on the instruction (lib.rs 61-65).  `+= 1` and `-= 1` on a u32
\* panic on overflow in a build with overflow checks ("attempt to add /
\* subtract with overflow") and wrap modulo 2^32 in a build without them.
apply(ins, counter, checks) ==
    CASE ins.type = "Increment" ->
            IF InU32(Plus1(counter)) THEN [panic |-> FALSE, counter |-> Plus1(counter)]
            ELSE [panic |-> checks, counter |-> Wrap(Plus1(counter))]
      [] ins.type = "Decrement" ->
            IF InU32(Minus1(counter)) THEN [panic |-> FALSE, counter |-> Minus1(counter)]
            ELSE [panic |-> checks, counter |-> Wrap(Minus1(counter))]
      [] OTHER -> [panic |-> FALSE, counter |-> ins.val]

Outcome(r, d) == [result |-> r, data |-> d]

\* A mutant of run: the account is deserialized before its owner is checked.
run_deserialize_first(id, own, naccounts, buf, input, checks) ==
    LET u == unpack(input)
        g == try_from_slice(buf)
        a == apply(u.ins, g.counter, checks)
        w == serialize(a.counter, buf)
    IN  IF u.err # "Ok" THEN Outcome(u.err, buf)
        ELSE IF naccounts = 0 THEN Outcome("NotEnoughAccountKeys", buf)
        ELSE IF g.err # "Ok" THEN Outcome(g.err, buf)
        ELSE IF own # id THEN Outcome("IncorrectProgramId", buf)
        ELSE IF a.panic THEN Outcome("panic", buf)
        ELSE Outcome(w.err, w.buf)

\* A mutant of run: the owner test is missing.
run_no_owner_check(id, own, naccounts, buf, input, checks) ==
    LET u == unpack(input)
        g == try_from_slice(buf)
        a == apply(u.ins, g.counter, checks)
        w == serialize(a.counter, buf)
    IN  IF u.err # "Ok" THEN Outcome(u.err, buf)
        ELSE IF naccounts = 0 THEN Outcome("NotEnoughAccountKeys", buf)
        ELSE IF g.err # "Ok" THEN Outcome(g.err, buf)
        ELSE IF a.panic THEN Outcome("panic", buf)
        ELSE Outcome(w.err, w.buf)

\* The body of process_instruction (lib.rs 38-74) as a function of its
\* inputs: the result and the account buffer it leaves.  Every `?`, the
\* owner test and the panic leave at the point the code leaves.
run(id, own, naccounts, buf, input, checks) ==
    LET u == unpack(input)
        g == try_from_slice(buf)
        a == apply(u.ins, g.counter, checks)
        w == serialize(a.counter, buf)
    IN  IF u.err # "Ok" THEN Outcome(u.err, buf)
        ELSE IF naccounts = 0 THEN Outcome("NotEnoughAccountKeys", buf)
        ELSE IF own # id THEN Outcome("IncorrectProgramId", buf)
        ELSE IF g.err # "Ok" THEN Outcome(g.err, buf)
        ELSE IF a.panic THEN Outcome("panic", buf)
        ELSE Outcome(w.err, w.buf)

\* ------------------------------------------------------------------- inputs
\* The u32 values used as Set payloads and as stored counters.
Values ==
    { U32(0, 0), U32(0, 100), U32(258, 772), U32_MAX }

Tags == {0, 1, 2, 3}

\* Tails of a raw instruction: every length up to MaxRest, and payloads.
Rests ==
    { Repeat(0, n) : n \in 0..MaxRest } \cup { to_le_bytes(v) : v \in Values }

RawInstructions == { << >> } \cup { << t >> \o r : t \in Tags, r \in Rests }

\* The empty instruction and the instructions of one byte.
TagOnlyInstructions == { << >> } \cup { << t >> : t \in Tags }

Commands == { Increment, Decrement } \cup { Set(v) : v \in Values }

\* The instruction bytes the client builds for a command, as the tests build
\* them: [2, to_le_bytes(v)...] for Set (lib.rs 108-115), [0; 5] for
\* Increment (lib.rs 136) and [1; 5] for Decrement (lib.rs 146).
pack(cmd) ==
    CASE cmd.type = "Set" -> << 2 >> \o to_le_bytes(cmd.val)
      [] cmd.type = "Increment" -> Repeat(0, 5)
      [] OTHER -> Repeat(1, 5)

Pubkeys == {"program", "other"}

\* Account buffers at allocation: zero-filled of any length, or a record.
InitialData ==
    { Repeat(0, n) : n \in 0..MaxDataLen }
        \cup { to_le_bytes(v) : v \in {U32(0, 100), U32_MAX} }

\* -------------------------------------------------------------------- state
VARIABLES
    program_id,         \* the program's identity
    owner,              \* account.owner
    data,               \* account.data
    overflow_checks,    \* whether the build checks integer overflow
    calls,              \* number of calls made
    accounts_len,       \* last call: length of the accounts slice
    instruction_data,   \* last call: the raw instruction bytes
    sent,               \* last call: the command the client packed, if any
    instruction,        \* last call: what unpack returned
    result,             \* last call: Ok, the ProgramError, or "panic"
    data_before,        \* last call: account.data when the call began
    prev_instruction,   \* the call before: what unpack returned
    prev_result,        \* the call before: its result
    expected            \* reference: the integer the successful commands add up to

vars ==
    << program_id, owner, data, overflow_checks, calls, accounts_len,
       instruction_data, sent, instruction, result, data_before,
       prev_instruction, prev_result, expected >>

Init ==
    /\ program_id = "program"
    /\ owner \in Pubkeys
    /\ data \in InitialData
    /\ overflow_checks \in BOOLEAN
    /\ calls = 0
    /\ accounts_len = 0
    /\ instruction_data = << >>
    /\ sent = NoInstruction
    /\ instruction = UnpackErr
    /\ result = "None"
    /\ data_before = data
    /\ prev_instruction = UnpackErr
    /\ prev_result = "None"
    /\ expected = IF Len(data) = 4 THEN from_le_bytes(data) ELSE U32(0, 0)

\* The counter a command yields, as an integer: Set(v) gives v, Increment
\* counter + 1, Decrement counter - 1.
Ideal(ins, c) ==
    CASE ins.type = "Set" -> ins.val
      [] ins.type = "Increment" -> Plus1(c)
      [] ins.type = "Decrement" -> Minus1(c)
      [] OTHER -> c

\* One call of process_instruction(program_id, accounts, input).
process_instruction(naccounts, input, cmd) ==
    LET out == run(program_id, owner, naccounts, data, input, overflow_checks)
        u == unpack(input)
    IN  /\ calls < MaxCalls
        /\ calls' = calls + 1
        /\ accounts_len' = naccounts
        /\ instruction_data' = input
        /\ sent' = cmd
        /\ instruction' = u
        /\ result' = out.result
        /\ data_before' = data
        /\ data' = out.data
        /\ prev_instruction' = instruction
        /\ prev_result' = result
        /\ expected' = IF out.result = "Ok" THEN Ideal(u.ins, expected) ELSE expected
        /\ UNCHANGED << program_id, owner, overflow_checks >>

\* The host calls the entrypoint with arbitrary instruction bytes and the
\* account.
ProcessRaw ==
    \E input \in RawInstructions : process_instruction(1, input, NoInstruction)

\* The host calls the entrypoint with an empty accounts slice.
ProcessNoAccount ==
    \E input \in TagOnlyInstructions : process_instruction(0, input, NoInstruction)

\* A client packs a command and calls the entrypoint with one account.
ProcessPacked ==
    \E cmd \in Commands : process_instruction(1, pack(cmd), cmd)

Next == ProcessRaw \/ ProcessNoAccount \/ ProcessPacked

Spec == Init /\ [][Next]_vars

\* ------------------------------------------------------------------- claims
\* A call has been made / has been made with the account in the slice.
Called == calls > 0

WithAccount == Called /\ accounts_len > 0

OwnerMatches == owner = program_id

\* The instruction format as the specification words it: a tag 0 or 1 with
\* any tail, or the tag 2 with exactly 4 more bytes.
WellFormed(input) ==
    /\ Len(input) > 0
    /\ \/ input[1] \in {0, 1}
       \/ input[1] = 2 /\ Len(input) - 1 = 4

\* C1 (as claimed): whatever the raw instruction bytes, a call on an account
\* whose owner differs from the program returns IncorrectProgramId (the
\* specification's IncorrectOwner) and leaves the buffer as it was.
C1_AnyBytesIncorrectOwner ==
    (WithAccount /\ ~OwnerMatches) =>
        (result = "IncorrectProgramId" /\ data = data_before)

\* C1 (amended): a call on an account whose owner differs from the program
\* leaves the buffer as it was, and returns IncorrectProgramId when the raw
\* instruction is well formed and InvalidInstructionData when it is not.
C1_OwnerMismatchRejected ==
    (WithAccount /\ ~OwnerMatches) =>
        /\ data = data_before
        /\ result = IF WellFormed(instruction_data)
                    THEN "IncorrectProgramId" ELSE "InvalidInstructionData"

C1_Witness ==
    /\ WithAccount /\ ~OwnerMatches
    /\ Len(data_before) = 4
    /\ instruction.ins.type = "Set"
    /\ result = "IncorrectProgramId"

\* C2: with a matching owner and a stored counter of 0, Decrement aborts
\* the call (the overflow panic) and the record stays 0; it never succeeds
\* with the counter wrapped to 0xFFFFFFFF.
C2_DecrementAtZeroAborts ==
    (WithAccount /\ OwnerMatches /\ data_before = << 0, 0, 0, 0 >>
        /\ instruction.ins.type = "Decrement") =>
        (result = "panic" /\ data = data_before)

\* C3: a call that does not return Ok leaves the account buffer as it was;
\* the buffer changes only in calls that return Ok.
C3_AllOrNothing ==
    Called => (result # "Ok" => data = data_before)
                /\ (data # data_before => result = "Ok")

C3_Witness ==
    /\ WithAccount /\ OwnerMatches
    /\ Len(data_before) \in 1..3
    /\ instruction.ins = Set(U32_MAX)
    /\ result = "BorshIoError"
    /\ data = data_before

\* C4: unpack fails, with InvalidInstructionData, exactly when the buffer
\* is empty, its tag is not 0, 1 or 2, or its tag is 2 and the tail is not
\* 4 bytes; tag 0 gives Increment and tag 1 Decrement whatever the tail.
C4_UnpackFailsExactly ==
    Called =>
        /\ instruction.err = IF WellFormed(instruction_data)
                             THEN "Ok" ELSE "InvalidInstructionData"
        /\ (instruction.err # "Ok" => instruction.ins = NoInstruction)
        /\ (Len(instruction_data) > 0 /\ instruction_data[1] = 0
                => instruction.ins = Increment)
        /\ (Len(instruction_data) > 0 /\ instruction_data[1] = 1
                => instruction.ins = Decrement)
        /\ (instruction.err = "Ok" /\ instruction_data[1] = 2
                => instruction.ins.type = "Set")

C4_Witness ==
    /\ Called
    /\ Len(instruction_data) > 5
    /\ instruction_data[1] = 2
    /\ instruction.err = "InvalidInstructionData"

\* C5: unpacking the bytes a client packs for a command (the tag, then for
\* Set the value least-significant byte first) gives that command back,
\* with the same value.
C5_RoundTrip ==
    sent # NoInstruction =>
        /\ instruction = UnpackOk(sent)
        /\ (sent.type = "Set" =>
                /\ instruction_data[2] = sent.val.lo % 256
                /\ instruction_data[5] = sent.val.hi \div 256)

C5_Witness ==
    /\ sent = Set(U32(258, 772))
    /\ instruction_data = << 2, 4, 3, 2, 1 >>
    /\ instruction.ins.val = U32(258, 772)

\* C6: on an owner-matching 4-byte account the buffer is the little-endian
\* encoding of the counter obtained by applying the commands of the
\* successful calls in order: Set(v) gives v, Increment counter + 1,
\* Decrement counter - 1.
C6_BufferIsAppliedCounter ==
    (OwnerMatches /\ Len(data) = 4) => from_le_bytes(data) = expected

\* C7: Set(v) twice in a row leaves the buffer as Set(v) once left it, and
\* both calls succeed: the first on any 4-byte record of the program's, the
\* second after it.
C7_SetIdempotent ==
    /\ (WithAccount /\ OwnerMatches /\ Len(data_before) = 4
            /\ instruction.ins.type = "Set") => result = "Ok"
    /\ (WithAccount /\ prev_result = "Ok" /\ prev_instruction.ins.type = "Set"
            /\ instruction = prev_instruction) =>
            (result = "Ok" /\ data = data_before)

C7_Witness ==
    /\ WithAccount
    /\ prev_result = "Ok"
    /\ prev_instruction.ins = Set(U32(0, 100))
    /\ instruction = prev_instruction
    /\ result = "Ok"
    /\ data = << 100, 0, 0, 0 >>

\* C8: failures come in pipeline order: a malformed instruction gives
\* InvalidInstructionData even when the owner differs; otherwise a
\* differing owner gives IncorrectProgramId even when the buffer is no
\* record; BorshIoError (MalformedRecord) is only returned for an account
\* the program owns.
C8_PipelineOrder ==
    Called =>
        /\ (~WellFormed(instruction_data) => result = "InvalidInstructionData")
        /\ (WellFormed(instruction_data) /\ accounts_len > 0 /\ ~OwnerMatches
                => result = "IncorrectProgramId")
        /\ (result = "BorshIoError" => OwnerMatches)

C8_Witness ==
    /\ WithAccount /\ ~OwnerMatches
    /\ Len(data_before) # 4
    /\ WellFormed(instruction_data)
    /\ result = "IncorrectProgramId"

\* C9: with a well-formed instruction and a matching owner the record is
\* deserialized only from a buffer of exactly 4 bytes; a shorter or longer
\* buffer fails the call with BorshIoError (MalformedRecord) and is left as
\* it was.
C9_RecordIsFourBytes ==
    (WithAccount /\ OwnerMatches /\ WellFormed(instruction_data)) =>
        IF Len(data_before) = 4
        THEN result \in {"Ok", "panic"}
        ELSE result = "BorshIoError" /\ data = data_before

C9_Witness ==
    /\ WithAccount /\ OwnerMatches
    /\ Len(data_before) > 4
    /\ instruction.ins = Set(U32_MAX)
    /\ result = "BorshIoError"

\* C10: with a matching owner and a stored counter of 0xFFFFFFFF, Increment
\* aborts the call and the record stays 0xFFFFFFFF; a successful Increment
\* leaves a counter strictly greater than it found.
C10_IncrementChecked ==
    (WithAccount /\ OwnerMatches /\ Len(data_before) = 4
        /\ instruction.ins.type = "Increment") =>
        IF data_before = << 255, 255, 255, 255 >>
        THEN result = "panic" /\ data = data_before
        ELSE result = "Ok" /\ Less(from_le_bytes(data_before), from_le_bytes(data))

====
